---- MODULE Spec2Model ----
(***************************************************************************)
(* Date disambiguation and register filtering of the NLS catalogue data    *)
(* (lib/nls.py): clean_nls_dates extracts the year mentions of every       *)
(* record's date text with one regular expression, reduces them to a       *)
(* (min_date, max_date) pair, and filter_nls_date selects the records of a  *)
(* register.                                                               *)
(*                                                                         *)
(* A date text is a sequence of one-character strings.  Years are          *)
(* integers; float64 NaN is the value NaN.  A tolerance (date_range) is     *)
(* held in tenths of a year, so that date_range + 0.1 is date_range + 1     *)
(* and a year y is 10 * y tenths.                                           *)
(***************************************************************************)
EXTENDS Integers, Sequences, FiniteSets, TLC

VARIABLES df, dates_df, processed_dates, register_df, filter_date,
          date_range, pc, export_df, source_df, calls, config, exports,
          register_run, file_path, file_paths, compiled_df, out_dir, label,
          suffix, new_path, title_string, clean_title

\* the state of the runs of the helpers and of the compilation of files
helperVars == <<file_paths, compiled_df, out_dir, label, suffix, new_path,
                title_string, clean_title>>

\* the state of the runs other than the cleaning and filtering of one table
otherVars == <<export_df, source_df, calls, config, exports, register_run,
               file_path, file_paths, compiled_df, out_dir, label, suffix,
               new_path, title_string, clean_title>>

vars == <<df, dates_df, processed_dates, register_df, filter_date,
          date_range, pc, export_df, source_df, calls, config, exports,
          register_run, file_path, file_paths, compiled_df, out_dir, label,
          suffix, new_path, title_string, clean_title>>

\* no helper has run and no file has been compiled
HelpersIdle ==
    /\ file_paths = <<>>
    /\ compiled_df = <<>>
    /\ out_dir = <<>>
    /\ label = <<>>
    /\ suffix = <<>>
    /\ new_path = <<>>
    /\ title_string = <<>>
    /\ clean_title = <<>>

\* nothing else has run
OtherIdle ==
    /\ export_df = <<>>
    /\ source_df = <<>>
    /\ calls = <<>>
    /\ config = <<>>
    /\ exports = <<>>
    /\ register_run = <<>>
    /\ file_path = <<>>
    /\ HelpersIdle

(***************************************************************************)
(* Bounds of the model.                                                    *)
(***************************************************************************)
\* longest date text of a one-record table, in chunks of Chunks
MaxParts == 3
\* most records of a table
MaxRecords == 2
\* the years of a filtered table lie within YearSpan of the clamp year
YearSpan == 1

(***************************************************************************)
(* Program constants.                                                      *)
(***************************************************************************)
\* \d{4}: a year is a run of four digits
YearDigits == 4
\* the floor that filter_nls_date forces min_date to
ClampYear == 1678
\* np.nan, the missing value of a float64 column
NaN == -1
\* filter_date None: the undated register
None == -2

(***************************************************************************)
(* Characters.                                                             *)
(***************************************************************************)
DigitVal == [c \in {"0", "1", "2", "3", "4", "5", "6", "7", "8", "9"} |->
               CASE c = "0" -> 0 [] c = "1" -> 1 [] c = "2" -> 2
                 [] c = "3" -> 3 [] c = "4" -> 4 [] c = "5" -> 5
                 [] c = "6" -> 6 [] c = "7" -> 7 [] c = "8" -> 8
                 [] c = "9" -> 9]

\* \d
IsDigit(c) == c \in DOMAIN DigitVal

\* s[p..] starts with the characters of w
StartsWith(s, p, w) ==
    /\ p + Len(w) - 1 <= Len(s)
    /\ \A i \in 1..Len(w) : s[p + i - 1] = w[i]

(***************************************************************************)
(* dates_re, the pattern of clean_nls_dates:                               *)
(*   (?:c(?:a\.?|irca|) ?(?P<circa_date>\d{4})|                            *)
(*      (?P<question_date>\d{4})\?|                                        *)
(*      (?P<unqualified_date>\d{4}))                                       *)
(***************************************************************************)
\* \d{4} at position p
HasYearAt(s, p) ==
    /\ p + YearDigits - 1 <= Len(s)
    /\ \A i \in 0..(YearDigits - 1) : IsDigit(s[p + i])

\* astype('float64') of the four captured digits
RECURSIVE DigitsValue(_, _, _)
DigitsValue(s, p, n) ==
    IF n = 0 THEN 0
    ELSE 10 * DigitsValue(s, p, n - 1) + DigitVal[s[p + n - 1]]

YearAt(s, p) == DigitsValue(s, p, YearDigits)

\* the ways c(?:a\.?|irca|) ? can match from p, in the order the regex
\* engine tries them (a\.? and " ?" are greedy): each is the position where
\* \d{4} must then start
CircaTails ==
    << <<"c", "a", ".", " ">>, <<"c", "a", ".">>, <<"c", "a", " ">>,
       <<"c", "a">>, <<"c", "i", "r", "c", "a", " ">>,
       <<"c", "i", "r", "c", "a">>, <<"c", " ">>, <<"c">> >>

CircaYearStarts(s, p) ==
    SelectSeq([i \in 1..Len(CircaTails) |->
                 IF StartsWith(s, p, CircaTails[i])
                 THEN p + Len(CircaTails[i]) ELSE 0],
              LAMBDA q : q > 0 /\ HasYearAt(s, q))

NoMatch == [kind |-> "none", year |-> NaN, end |-> 0]

\* variant of MatchAt: the unqualified alternative is tried before the
\* question alternative
MatchAtUnqFirst(s, p) ==
    IF CircaYearStarts(s, p) # <<>>
    THEN LET q == Head(CircaYearStarts(s, p))
         IN [kind |-> "circa", year |-> YearAt(s, q), end |-> q + YearDigits]
    ELSE IF HasYearAt(s, p)
    THEN [kind |-> "unqualified", year |-> YearAt(s, p),
          end |-> p + YearDigits]
    ELSE NoMatch

\* the match of dates_re that starts at position p, if any: the
\* alternatives are tried in the order circa, question, unqualified
MatchAt(s, p) ==
    IF CircaYearStarts(s, p) # <<>>
    THEN LET q == Head(CircaYearStarts(s, p))
         IN [kind |-> "circa", year |-> YearAt(s, q), end |-> q + YearDigits]
    ELSE IF HasYearAt(s, p) /\ StartsWith(s, p + YearDigits, <<"?">>)
    THEN [kind |-> "question", year |-> YearAt(s, p),
          end |-> p + YearDigits + 1]
    ELSE IF HasYearAt(s, p)
    THEN [kind |-> "unqualified", year |-> YearAt(s, p),
          end |-> p + YearDigits]
    ELSE NoMatch

\* one row of dates_df: the record's key, the match number, the three
\* capture groups (one of them set), and the span of the match in the text
\* (start inclusive, end exclusive, positions from 1)
MatchRow(key, n, p, m) ==
    [key |-> key, match |-> n, start |-> p, end |-> m.end,
     circa_date |-> IF m.kind = "circa" THEN m.year ELSE NaN,
     question_date |-> IF m.kind = "question" THEN m.year ELSE NaN,
     unqualified_date |-> IF m.kind = "unqualified" THEN m.year ELSE NaN]

\* str.extractall on one text: all non-overlapping matches, left to right
RECURSIVE Scan(_, _, _, _)
Scan(key, s, p, n) ==
    IF p > Len(s) THEN <<>>
    ELSE LET m == MatchAt(s, p)
         IN IF m.kind = "none" THEN Scan(key, s, p + 1, n)
            ELSE <<MatchRow(key, n, p, m)>> \o Scan(key, s, m.end, n + 1)

\* df['date'].str.extractall(dates_re).astype('float64')
RECURSIVE ExtractAll(_)
ExtractAll(table) ==
    IF table = <<>> THEN <<>>
    ELSE Scan(Head(table).key, Head(table).date, 1, 0)
           \o ExtractAll(Tail(table))

(***************************************************************************)
(* The reduction of clean_nls_dates.                                       *)
(***************************************************************************)
\* variant of GroupRows: the rows are not grouped by record
GroupRowsAll(rows, key) == rows

\* groupby(level=0): the rows of dates_df of one record
GroupRows(rows, key) == SelectSeq(rows, LAMBDA r : r.key = key)

Column(rows, col) == [i \in 1..Len(rows) |-> rows[i][col]]

DropNa(vals) == SelectSeq(vals, LAMBDA v : v # NaN)

Values(vals) == {vals[i] : i \in 1..Len(vals)}

\* groupby().first().dropna(), then update() into a NaN frame: the first
\* value of the group that is not NaN, NaN when there is none
GroupFirst(vals) ==
    IF DropNa(vals) = <<>> THEN NaN ELSE Head(DropNa(vals))

\* min() and max() of pandas skip NaN and give NaN for no value at all
NanMin(vals) ==
    IF DropNa(vals) = <<>> THEN NaN
    ELSE CHOOSE v \in Values(DropNa(vals)) :
           \A w \in Values(DropNa(vals)) : v <= w

NanMax(vals) ==
    IF DropNa(vals) = <<>> THEN NaN
    ELSE CHOOSE v \in Values(DropNa(vals)) :
           \A w \in Values(DropNa(vals)) : v >= w

\* the row of processed_dates of one record
ProcessedRow(rows, key) ==
    LET g == GroupRows(rows, key)
    IN [key |-> key,
        question_date |-> GroupFirst(Column(g, "question_date")),
        circa_date |-> GroupFirst(Column(g, "circa_date")),
        min_uq_date |-> NanMin(Column(g, "unqualified_date")),
        max_uq_date |-> NanMax(Column(g, "unqualified_date"))]

ProcessedDates(table, rows) ==
    [i \in 1..Len(table) |-> ProcessedRow(rows, table[i].key)]

ProcessedValues(p) ==
    <<p.question_date, p.circa_date, p.min_uq_date, p.max_uq_date>>

\* variant of MinDate: a missing minimum is filled with 0
MinDateFilled(p) ==
    IF NanMin(ProcessedValues(p)) = NaN THEN 0
    ELSE NanMin(ProcessedValues(p))

\* date_range['min_date'] = processed_dates.min(axis=1)
MinDate(p) == NanMin(ProcessedValues(p))

\* variant of MaxDate: only the unqualified dates are looked at
MaxDateOfUq(p) == p.max_uq_date

\* date_range['max_date'] = processed_dates.max(axis=1)
MaxDate(p) == NanMax(ProcessedValues(p))

\* variant of WithDateRange: the two columns are filled the wrong way round
WithDateRangeSwapped(table, processed) ==
    [i \in 1..Len(table) |->
       [key |-> table[i].key, date |-> table[i].date,
        min_date |-> MaxDate(processed[i]),
        max_date |-> MinDate(processed[i])]]

\* pd.concat([df.loc[:, :'date'], date_range, df.loc[:, 'language':]], axis=1)
WithDateRange(table, processed) ==
    [i \in 1..Len(table) |->
       [key |-> table[i].key, date |-> table[i].date,
        min_date |-> MinDate(processed[i]),
        max_date |-> MaxDate(processed[i])]]

(***************************************************************************)
(* Inputs.                                                                 *)
(***************************************************************************)
\* the pieces date texts are put together from: the circa markers and
\* parts of them, an upper-case letter, the space, the question mark, a
\* digit run shorter than a year and two years
Chunks ==
    { <<"c">>, <<"c", "a">>, <<"c", "a", ".">>, <<"c", "i", "r", "c", "a">>,
      <<"a">>, <<".">>, <<"C">>, <<" ">>, <<"?">>,
      <<"1", "6">>, <<"1", "6", "7", "7">>, <<"1", "6", "7", "9">> }

RECURSIVE Texts(_)
Texts(n) ==
    IF n = 0 THEN {<<>>}
    ELSE LET T == Texts(n - 1)
         IN T \cup {t \o c : t \in T, c \in Chunks}

\* the date texts of the tables of several records
SampleTexts ==
    { <<>>,
      <<"1", "6", "7">>,
      <<"c", "1", "6", "7", "9", "?">>,
      <<"1", "6", "7", "7", "?">>,
      <<"c", "1", "6", "7", "7", " ", "1", "6", "7", "9">>,
      <<"1", "6", "7", "9", " ", "1", "6", "7", "7", "?">>,
      <<"c", "1", "6", "7", "7", " ", "c", "a", ".", " ", "1", "6", "7", "9">> }

\* a table as read from a file: row numbers as keys
RawTable(texts) == [i \in 1..Len(texts) |-> [key |-> i - 1, date |-> texts[i]]]

RawTables ==
    {RawTable(<<t>>) : t \in Texts(MaxParts)}
      \cup UNION {{RawTable(ts) : ts \in [1..n -> SampleTexts]} :
                    n \in 2..MaxRecords}

(***************************************************************************)
(* clean_nls_dates                                                         *)
(***************************************************************************)
InitDates ==
    /\ df \in RawTables
    /\ dates_df = <<>>
    /\ processed_dates = <<>>
    /\ register_df = <<>>
    /\ filter_date = None
    /\ date_range = 0
    /\ pc = "raw"
    /\ OtherIdle

CleanNlsDates ==
    /\ pc = "raw"
    /\ dates_df' = ExtractAll(df)
    /\ processed_dates' = ProcessedDates(df, dates_df')
    /\ df' = WithDateRange(df, processed_dates')
    /\ pc' = "cleaned"
    /\ UNCHANGED <<register_df, filter_date, date_range>>
    /\ UNCHANGED otherVars

NextDates == CleanNlsDates

SpecDates == InitDates /\ [][NextDates]_vars

(***************************************************************************)
(* filter_nls_date                                                         *)
(***************************************************************************)
\* variant of ModYear: the 0.1 is left out
ModYearExact(dr) == dr

\* mod_year = date_range + 0.1, in tenths of a year
ModYear(dr) == dr + 1

\* variant of InWindow: the comparisons are not strict
InWindowInclusive(r, fd, dr) ==
    /\ r.min_date # NaN
    /\ r.max_date # NaN
    /\ 10 * r.min_date - ModYear(dr) <= 10 * fd
    /\ 10 * r.max_date + ModYear(dr) >= 10 * fd

\* ((df['min_date'] - mod_year) < filter_date)
\*   & ((df['max_date'] + mod_year) > filter_date)
\* a comparison with NaN is False
InWindow(r, fd, dr) ==
    /\ r.min_date # NaN
    /\ r.max_date # NaN
    /\ 10 * r.min_date - ModYear(dr) < 10 * fd
    /\ 10 * r.max_date + ModYear(dr) > 10 * fd

\* variant of IsUndated: one missing date is enough
IsUndatedEither(r) == r.min_date = NaN \/ r.max_date = NaN

\* df['min_date'].isnull() & df['max_date'].isnull()
IsUndated(r) == r.min_date = NaN /\ r.max_date = NaN

\* lambda d: 1678. if d < 1678. else d
Clamp(d) == IF d # NaN /\ d < ClampYear THEN ClampYear ELSE d

\* register_df.loc[:, 'min_date'] = register_df.loc[:, 'min_date'].map(...)
ClampMinDate(table) ==
    [i \in 1..Len(table) |->
       [table[i] EXCEPT !.min_date = Clamp(table[i].min_date)]]

\* variant of filter_nls_date: the selection is a view of df, so the
\* write of the clamp reaches the rows of df
filter_nls_date_view(table, fd, dr) ==
    IF fd # None
    THEN [df |-> [i \in 1..Len(table) |->
                    IF InWindow(table[i], fd, dr)
                    THEN [table[i] EXCEPT
                            !.min_date = Clamp(table[i].min_date)]
                    ELSE table[i]],
          register_df |->
            ClampMinDate(SelectSeq(table, LAMBDA r : InWindow(r, fd, dr)))]
    ELSE [df |-> table, register_df |-> SelectSeq(table, IsUndated)]

\* variant of filter_nls_date: the selected rows are returned in descending
\* order of their position in df
filter_nls_date_descending(table, fd, dr) ==
    LET rows == IF fd # None
                THEN ClampMinDate(
                       SelectSeq(table, LAMBDA r : InWindow(r, fd, dr)))
                ELSE SelectSeq(table, IsUndated)
    IN [df |-> table,
        register_df |-> [i \in 1..Len(rows) |-> rows[Len(rows) + 1 - i]]]

\* filter_nls_date(df, filter_date, date_range): what the call leaves in
\* df and what it returns.  df.loc[mask] is a copy of the selected rows.
filter_nls_date(table, fd, dr) ==
    IF fd # None
    THEN [df |-> table,
          register_df |->
            ClampMinDate(SelectSeq(table, LAMBDA r : InWindow(r, fd, dr)))]
    ELSE [df |-> table, register_df |-> SelectSeq(table, IsUndated)]

\* the years of the tables given to filter_nls_date
Years == (ClampYear - YearSpan)..(ClampYear + YearSpan)

\* the date pairs of a record: min_date <= max_date, both missing, or one
\* of them missing
DatePairs ==
    {<<a, b>> \in Years \X Years : a <= b}
      \cup {<<NaN, NaN>>, <<NaN, ClampYear>>, <<ClampYear, NaN>>}

DatedTable(pairs) ==
    [i \in 1..Len(pairs) |->
       [key |-> i - 1, date |-> <<>>,
        min_date |-> pairs[i][1], max_date |-> pairs[i][2]]]

DatedTables ==
    UNION {{DatedTable(ps) : ps \in [1..n -> DatePairs]} : n \in 0..MaxRecords}

\* the register targets: a year, or None for the undated register
FilterDates == {ClampYear - 1, ClampYear, ClampYear + 1, None}

\* the tolerances, in tenths of a year: 0, 0.9 and 1.0
DateRanges == {0, 9, 10}

InitFilter ==
    /\ df \in DatedTables
    /\ dates_df = <<>>
    /\ processed_dates = <<>>
    /\ register_df = <<>>
    /\ filter_date = None
    /\ date_range = 0
    /\ pc = "cleaned"
    /\ OtherIdle

FilterNlsDate(fd, dr) ==
    /\ pc \in {"cleaned", "filtered"}
    /\ df' = filter_nls_date(df, fd, dr).df
    /\ register_df' = filter_nls_date(df, fd, dr).register_df
    /\ filter_date' = fd
    /\ date_range' = dr
    /\ pc' = "filtered"
    /\ UNCHANGED <<dates_df, processed_dates>>
    /\ UNCHANGED otherVars

NextFilter == \E fd \in FilterDates, dr \in DateRanges : FilterNlsDate(fd, dr)

SpecFilter == InitFilter /\ [][NextFilter]_vars

\* the whole run of the NLS cleaning: the dates of a table are cleaned and
\* the table is then filtered once per register
Init == InitDates

Next ==
    \/ CleanNlsDates
    \/ \E fd \in FilterDates, dr \in DateRanges : FilterNlsDate(fd, dr)

Spec == Init /\ [][Next]_vars

(***************************************************************************)
(* Properties of clean_nls_dates.                                          *)
(***************************************************************************)
\* the year a row of dates_df carries
RowYear(r) == NanMax(<<r.circa_date, r.question_date, r.unqualified_date>>)

RowKinds(r) ==
    {c \in {"circa_date", "question_date", "unqualified_date"} : r[c] # NaN}

\* the rows of dates_df of the i-th record of df
RowsOfRecord(i) == GroupRows(dates_df, df[i].key)

\* four digits stand at positions p .. p+3 of s
FourDigitsAt(s, p) ==
    /\ p >= 1
    /\ p + 3 <= Len(s)
    /\ \A k \in p..(p + 3) : s[k] \in {"0", "1", "2", "3", "4", "5", "6",
                                        "7", "8", "9"}

NumberAt(s, p) ==
    1000 * DigitVal[s[p]] + 100 * DigitVal[s[p + 1]]
      + 10 * DigitVal[s[p + 2]] + DigitVal[s[p + 3]]

SetMin(S) == CHOOSE v \in S : \A w \in S : v <= w

SetMax(S) == CHOOSE v \in S : \A w \in S : v >= w

\* C1: clean_nls_dates sets min_date to the minimum and max_date to the
\* maximum of the years of all the matches of a record, whatever their
\* classification and however many there are of each.
C1_PooledMinMax ==
    pc = "cleaned" =>
      \A i \in 1..Len(df) :
        LET years == {RowYear(RowsOfRecord(i)[j]) :
                        j \in 1..Len(RowsOfRecord(i))}
        IN years # {} =>
             /\ df[i].min_date = SetMin(years)
             /\ df[i].max_date = SetMax(years)

\* C2: a date text without a run of four digits gives no match, the
\* cleaning completes, and the record has min_date and max_date both NaN.
C2_NoYearUndated ==
    pc = "cleaned" =>
      \A i \in 1..Len(df) :
        (\A p \in 1..Len(df[i].date) : ~FourDigitsAt(df[i].date, p)) =>
          /\ RowsOfRecord(i) = <<>>
          /\ df[i].min_date = NaN
          /\ df[i].max_date = NaN

\* a cleaned record whose text has digits, but no four in a row
C2_Witness ==
    /\ pc = "cleaned"
    /\ \E i \in 1..Len(df) :
         /\ \E p \in 1..Len(df[i].date) : df[i].date[p] = "6"
         /\ \A p \in 1..Len(df[i].date) : ~FourDigitsAt(df[i].date, p)
         /\ df[i].min_date = NaN
         /\ df[i].max_date = NaN

\* C3: a record with exactly one date match, of year Y, has
\* min_date = max_date = Y; a text whose only digits are one run of four
\* has exactly one match, whose year is the number they write.
C3_SingleMatch ==
    pc = "cleaned" =>
      \A i \in 1..Len(df) :
        LET s == df[i].date
            digits == {p \in 1..Len(s) : IsDigit(s[p])}
        IN /\ Len(RowsOfRecord(i)) = 1 =>
                /\ df[i].min_date = RowYear(RowsOfRecord(i)[1])
                /\ df[i].max_date = RowYear(RowsOfRecord(i)[1])
           /\ \A q \in 1..Len(s) :
                digits = q..(q + 3) =>
                  /\ Len(RowsOfRecord(i)) = 1
                  /\ df[i].min_date = NumberAt(s, q)
                  /\ df[i].max_date = NumberAt(s, q)

\* a cleaned record with one match, which is a circa date
C3_Witness ==
    /\ pc = "cleaned"
    /\ \E i \in 1..Len(df) :
         /\ Len(RowsOfRecord(i)) = 1
         /\ RowsOfRecord(i)[1].circa_date = 1677
         /\ df[i].min_date = 1677
         /\ df[i].max_date = 1677

\* the lower-case form of a letter of the circa markers
Lower(c) ==
    CASE c = "C" -> "c" [] c = "A" -> "a" [] c = "I" -> "i"
      [] c = "R" -> "r" [] OTHER -> c

\* the year whose digits start at q is preceded by c, ca, ca. or circa in
\* any letter case, with at most one space in between
CircaMarkerBefore(s, q) ==
    \E w \in {<<"c">>, <<"c", "a">>, <<"c", "a", ".">>,
              <<"c", "i", "r", "c", "a">>} :
      \E sp \in {0, 1} :
        LET b == q - sp - Len(w)
        IN /\ b >= 1
           /\ sp = 1 => s[q - 1] = " "
           /\ \A k \in 1..Len(w) : Lower(s[b + k - 1]) = w[k]

\* the position of the first digit of the year of a row
YearStart(r) ==
    IF r.question_date # NaN THEN r.end - 5 ELSE r.end - 4

\* C4: a year preceded by c, ca, ca. or circa in any letter case, then
\* optional whitespace, is extracted as a circa date.
C4_CircaAnyCase ==
    pc = "cleaned" =>
      \A i \in 1..Len(df) :
        \A j \in 1..Len(RowsOfRecord(i)) :
          LET r == RowsOfRecord(i)[j]
          IN CircaMarkerBefore(df[i].date, YearStart(r)) =>
               /\ r.circa_date # NaN
               /\ r.unqualified_date = NaN

\* the text between the start of a match and its year is one of the
\* markers the pattern spells, followed by at most one space
SpelledMarker(s, b, q) ==
    \E w \in {<<"c">>, <<"c", "a">>, <<"c", "a", ".">>,
              <<"c", "i", "r", "c", "a">>} :
      \E sp \in {<<>>, <<" ">>} :
        /\ q - b = Len(w) + Len(sp)
        /\ \A k \in 1..(q - b) : s[b + k - 1] = (w \o sp)[k]

\* no match of the pattern could start in positions a .. b-1 and end by b
NoYearWithin(s, a, b) == \A p \in a..(b - 4) : ~FourDigitsAt(s, p)

\* C5: every match carries exactly one classification, chosen at each scan
\* position in the order circa, question, unqualified: a year behind a
\* circa marker is circa, also when a question mark follows; a year
\* directly followed by a question mark and without marker is question;
\* any other year is unqualified.  The matches are found left to right,
\* without overlap, and no run of four digits is left between them.
C5_Classification ==
    pc = "cleaned" =>
      \A i \in 1..Len(df) :
        LET s == df[i].date
            g == RowsOfRecord(i)
        IN /\ \A j \in 1..Len(g) :
                LET r == g[j]
                    marked == s[r.start] = "c"
                    q == IF marked THEN r.end - 4 ELSE r.start
                    asked == q + 4 <= Len(s) /\ s[q + 4] = "?"
                IN /\ Cardinality(RowKinds(r)) = 1
                   /\ FourDigitsAt(s, q)
                   /\ RowYear(r) = NumberAt(s, q)
                   /\ marked => SpelledMarker(s, r.start, q)
                   /\ RowKinds(r) =
                        IF marked THEN {"circa_date"}
                        ELSE IF asked THEN {"question_date"}
                        ELSE {"unqualified_date"}
                   /\ r.end = IF ~marked /\ asked THEN q + 5 ELSE q + 4
           /\ \A j \in 1..(Len(g) - 1) : g[j].end <= g[j + 1].start
           /\ \A j \in 1..Len(g) :
                NoYearWithin(s, IF j = 1 THEN 1 ELSE g[j - 1].end,
                             g[j].start)
           /\ NoYearWithin(s, IF g = <<>> THEN 1 ELSE g[Len(g)].end,
                           Len(s) + 1)

\* a cleaned table with a circa date that a question mark follows and a
\* question date
C5_Witness ==
    /\ pc = "cleaned"
    /\ \E i \in 1..Len(df) :
         \E j \in 1..Len(RowsOfRecord(i)) :
           LET r == RowsOfRecord(i)[j]
           IN /\ r.circa_date # NaN
              /\ r.end <= Len(df[i].date)
              /\ df[i].date[r.end] = "?"
    /\ \E i \in 1..Len(df) :
         \E j \in 1..Len(RowsOfRecord(i)) :
           RowsOfRecord(i)[j].question_date # NaN

\* C6: after clean_nls_dates every record with both min_date and max_date
\* present has min_date <= max_date.
C6_MinLeMax ==
    pc = "cleaned" =>
      \A i \in 1..Len(df) :
        (df[i].min_date # NaN /\ df[i].max_date # NaN) =>
          df[i].min_date <= df[i].max_date

\* a cleaned record whose matches give different years
C6_Witness ==
    /\ pc = "cleaned"
    /\ \E i \in 1..Len(df) :
         /\ df[i].min_date # NaN
         /\ df[i].min_date < df[i].max_date

(***************************************************************************)
(* Properties of filter_nls_date.                                          *)
(***************************************************************************)
Keys(table) == {table[i].key : i \in 1..Len(table)}

\* the record of a table with the given key
RecordOf(table, key) ==
    table[CHOOSE i \in 1..Len(table) : table[i].key = key]

\* C7: for a target year Y and a tolerance t the filter selects exactly the
\* records with min_date - (t + 0.1) < Y and max_date + (t + 0.1) > Y, both
\* strict: a record with min_date - (t + 0.1) = Y or max_date + (t + 0.1) = Y
\* is excluded, and so is a record whose min_date or max_date is missing.
C7_StrictWindow ==
    (pc = "filtered" /\ filter_date # None) =>
      \A i \in 1..Len(df) :
        LET r == df[i]
            tenthsLow == 10 * r.min_date - (date_range + 1)
            tenthsHigh == 10 * r.max_date + (date_range + 1)
            dated == r.min_date # NaN /\ r.max_date # NaN
        IN /\ r.key \in Keys(register_df) <=>
                /\ dated
                /\ tenthsLow < 10 * filter_date
                /\ tenthsHigh > 10 * filter_date
           /\ (dated /\ tenthsLow = 10 * filter_date) =>
                r.key \notin Keys(register_df)
           /\ (dated /\ tenthsHigh = 10 * filter_date) =>
                r.key \notin Keys(register_df)
           /\ ~dated => r.key \notin Keys(register_df)

\* a filter that leaves out a record with min_date - (t + 0.1) = Y whose
\* max_date is in range, and selects another record
C7_Witness ==
    /\ pc = "filtered"
    /\ filter_date # None
    /\ register_df # <<>>
    /\ \E i \in 1..Len(df) :
         /\ df[i].min_date # NaN
         /\ df[i].max_date # NaN
         /\ 10 * df[i].min_date - (date_range + 1) = 10 * filter_date
         /\ 10 * df[i].max_date + (date_range + 1) > 10 * filter_date
         /\ df[i].key \notin Keys(register_df)

\* C8: with a whole number t of years as tolerance, a dated record is
\* selected for the target Y exactly when its interval [min_date, max_date]
\* meets the window [Y - t, Y + t], ends included; a record dated exactly d
\* with Y - t <= d <= Y + t is in the result and carries d there.
C8_InclusiveWindow ==
    (pc = "filtered" /\ filter_date # None /\ date_range % 10 = 0) =>
      LET t == date_range \div 10
          Y == filter_date
      IN \A i \in 1..Len(df) :
           LET r == df[i]
           IN (r.min_date # NaN /\ r.max_date # NaN) =>
                /\ r.key \in Keys(register_df) <=>
                     \E d \in (Y - t)..(Y + t) :
                       r.min_date <= d /\ d <= r.max_date
                /\ r.max_date = Y - t => r.key \in Keys(register_df)
                /\ r.min_date = Y + t => r.key \in Keys(register_df)
                /\ r.max_date = Y - t - 1 => r.key \notin Keys(register_df)
                /\ r.min_date = Y + t + 1 => r.key \notin Keys(register_df)
                /\ (r.min_date = r.max_date /\ Y - t <= r.min_date
                      /\ r.min_date <= Y + t) =>
                     /\ r.key \in Keys(register_df)
                     /\ RecordOf(register_df, r.key).max_date = r.max_date

\* a filter with tolerance 1.0 that selects a record with max_date = Y - 1
\* and leaves out a record with max_date = Y - 2
C8_Witness ==
    /\ pc = "filtered"
    /\ filter_date # None
    /\ date_range = 10
    /\ \E i, j \in 1..Len(df) :
         /\ df[i].min_date # NaN
         /\ df[i].max_date = filter_date - 1
         /\ df[i].key \in Keys(register_df)
         /\ df[j].min_date # NaN
         /\ df[j].max_date = filter_date - 2
         /\ df[j].key \notin Keys(register_df)

\* C9: in the result of a filter for a year, a selected record whose
\* min_date in df is below 1678 has min_date 1678, any other selected record
\* keeps its min_date, and the call leaves df as it was.
C9_ClampOnCopy ==
    [][(pc' = "filtered" /\ filter_date' # None) =>
         /\ df' = df
         /\ \A k \in 1..Len(register_df') :
              LET out == register_df'[k]
              IN /\ out.key \in Keys(df)
                 /\ RecordOf(df, out.key).min_date < ClampYear =>
                      out.min_date = ClampYear
                 /\ RecordOf(df, out.key).min_date >= ClampYear =>
                      out.min_date = RecordOf(df, out.key).min_date
                 /\ RecordOf(df', out.key).min_date
                      = RecordOf(df, out.key).min_date]_vars

\* a filter whose result holds a record with min_date 1678 that df holds
\* with a min_date below 1678, next to a record that kept its min_date
C9_Witness ==
    /\ pc = "filtered"
    /\ filter_date # None
    /\ \E k \in 1..Len(register_df) :
         /\ register_df[k].min_date = ClampYear
         /\ RecordOf(df, register_df[k].key).min_date = ClampYear - 1
    /\ \E k \in 1..Len(register_df) :
         /\ register_df[k].min_date > ClampYear
         /\ RecordOf(df, register_df[k].key).min_date
              = register_df[k].min_date

\* C10: for the undated target (filter_date None) the result holds exactly
\* the records whose min_date and max_date are both missing; a record with
\* one of them missing is left out, and the records are returned as they
\* are in df (no clamp).
C10_Undated ==
    (pc = "filtered" /\ filter_date = None) =>
      /\ \A i \in 1..Len(df) :
           df[i].key \in Keys(register_df) <=>
             (df[i].min_date = NaN /\ df[i].max_date = NaN)
      /\ \A k \in 1..Len(register_df) :
           /\ register_df[k].key \in Keys(df)
           /\ register_df[k] = RecordOf(df, register_df[k].key)

\* an undated filter over a table with an undated record and a record of
\* which only min_date is missing
C10_Witness ==
    /\ pc = "filtered"
    /\ filter_date = None
    /\ register_df # <<>>
    /\ \E i \in 1..Len(df) :
         /\ df[i].min_date = NaN
         /\ df[i].max_date # NaN
         /\ df[i].key \notin Keys(register_df)

(***************************************************************************)
(* format_library_set: the export formatting of a filter result.           *)
(***************************************************************************)
\* pd.NaT, the missing value of a datetime64 column
NaT == <<>>

\* the datetime64 value of the first of January of a year
Timestamp(y) == <<y, 1, 1>>

\* pd.to_datetime(x, format='%Y', errors='coerce'): a missing value, or a
\* year before the first year a datetime64[ns] holds, gives NaT
ToDatetime(x) == IF x = NaN \/ x < ClampYear THEN NaT ELSE Timestamp(x)

\* the register name of a target of the filter, as in the registers of main
RegisterName(fd) == IF fd = None THEN "undated" ELSE "1863b"

\* format_library_set(df, None, 'NLS', register_name): a new table with
\* the index reset, the columns id, source_library and register added and,
\* for a dated register, min_date and max_date as datetimes
format_library_set(table, register_name) ==
    [i \in 1..Len(table) |->
       [key |-> i - 1,
        id |-> NaN,
        source_library |-> "NLS",
        register |-> register_name,
        date |-> table[i].date,
        min_date |-> IF register_name # "undated"
                     THEN ToDatetime(table[i].min_date)
                     ELSE table[i].min_date,
        max_date |-> IF register_name # "undated"
                     THEN ToDatetime(table[i].max_date)
                     ELSE table[i].max_date]]

\* the filter result of a register is formatted for export
FormatLibrarySet ==
    /\ pc = "filtered"
    /\ export_df' = format_library_set(register_df, RegisterName(filter_date))
    /\ UNCHANGED <<df, dates_df, processed_dates, register_df, filter_date,
                   date_range, pc, source_df, calls, config, exports,
                   register_run, file_path>>
    /\ UNCHANGED helperVars

\* a table is filtered any number of times, each result formatted or not;
\* source_df keeps the table as it was before the first call
InitExport ==
    /\ df \in DatedTables
    /\ dates_df = <<>>
    /\ processed_dates = <<>>
    /\ register_df = <<>>
    /\ filter_date = None
    /\ date_range = 0
    /\ pc = "cleaned"
    /\ export_df = <<>>
    /\ source_df = df
    /\ calls = <<>>
    /\ config = <<>>
    /\ exports = <<>>
    /\ register_run = <<>>
    /\ file_path = <<>>
    /\ HelpersIdle

NextExport ==
    \/ \E fd \in FilterDates, dr \in DateRanges : FilterNlsDate(fd, dr)
    \/ FormatLibrarySet

SpecExport == InitExport /\ [][NextExport]_vars

\* C11: after any sequence of filter_nls_date calls, each result formatted
\* for export or not, the source table is as it was before the first call:
\* the same records in the same order, with the same keys and fields.
C11_SourceUnchanged == df = source_df

\* a dated filter has clamped a min_date in its result and the result has
\* been formatted for export
C11_Witness ==
    /\ pc = "filtered"
    /\ filter_date # None
    /\ Len(export_df) = Len(register_df)
    /\ \E k \in 1..Len(register_df) :
         /\ register_df[k].min_date = ClampYear
         /\ RecordOf(source_df, register_df[k].key).min_date < ClampYear
         /\ export_df[k].min_date = Timestamp(ClampYear)

\* C12: the result of filter_nls_date is a subsequence of its input: there
\* is a strictly increasing map from the rows of the result to the rows of
\* df under which each row of the result carries the key, date text and
\* max_date of its row of df, and that row's min_date or its clamp.
C12_Subsequence ==
    pc = "filtered" =>
      \E f \in [1..Len(register_df) -> 1..Len(df)] :
        /\ \A j, k \in 1..Len(register_df) : j < k => f[j] < f[k]
        /\ \A k \in 1..Len(register_df) :
             /\ register_df[k].key = df[f[k]].key
             /\ register_df[k].date = df[f[k]].date
             /\ register_df[k].max_date = df[f[k]].max_date
             /\ register_df[k].min_date
                  \in {df[f[k]].min_date, Clamp(df[f[k]].min_date)}

\* a dated filter has left the first record of df out and selected a later
\* one, which keeps its key
C12_Witness ==
    /\ pc = "filtered"
    /\ filter_date # None
    /\ Len(df) >= 2
    /\ Len(register_df) = Len(df) - 1
    /\ register_df[1].key = df[2].key

(***************************************************************************)
(* One invocation of filter_nls_date per register over the same table,     *)
(* the invocations interleaved statement by statement.                     *)
(***************************************************************************)
\* the registers the table is filtered for, and the target of each
CallRegisters == {"1677", "1678", "undated"}

RegisterDate(n) ==
    IF n = "undated" THEN None
    ELSE IF n = "1677" THEN ClampYear - 1 ELSE ClampYear

\* variant of ClampWrite: the selected rows are a view of the table, so
\* the write of the clamp reaches the table
ClampWriteView(table, rows) ==
    [i \in 1..Len(table) |->
       IF table[i].key \in {rows[k].key : k \in 1..Len(rows)}
       THEN [table[i] EXCEPT !.min_date = Clamp(table[i].min_date)]
       ELSE table[i]]

\* what the write of the clamp to the selected rows leaves in the table
\* they were selected from: df.loc[mask] is a copy, the table is untouched
ClampWrite(table, rows) == table

\* lines 184-187 and 193: the invocation for register n reads df and takes
\* a copy of the rows it selects
SelectCall(n) ==
    /\ calls[n].pc = "start"
    /\ calls' = [calls EXCEPT ![n] =
                   [pc |-> "selected",
                    register_df |->
                      IF RegisterDate(n) # None
                      THEN SelectSeq(df, LAMBDA r :
                             InWindow(r, RegisterDate(n), date_range))
                      ELSE SelectSeq(df, IsUndated)]]
    /\ UNCHANGED <<df, dates_df, processed_dates, register_df, filter_date,
                   date_range, pc, export_df, source_df, config, exports,
                   register_run, file_path>>
    /\ UNCHANGED helperVars

\* lines 190-195: the invocation for register n clamps the min_date of
\* its rows (dated register only) and returns them
ClampCall(n) ==
    /\ calls[n].pc = "selected"
    /\ calls' = [calls EXCEPT ![n] =
                   [pc |-> "done",
                    register_df |->
                      IF RegisterDate(n) # None
                      THEN ClampMinDate(calls[n].register_df)
                      ELSE calls[n].register_df]]
    /\ df' = IF RegisterDate(n) # None
             THEN ClampWrite(df, calls[n].register_df)
             ELSE df
    /\ UNCHANGED <<dates_df, processed_dates, register_df, filter_date,
                   date_range, pc, export_df, source_df, config, exports,
                   register_run, file_path>>
    /\ UNCHANGED helperVars

InitCalls ==
    /\ df \in DatedTables
    /\ dates_df = <<>>
    /\ processed_dates = <<>>
    /\ register_df = <<>>
    /\ filter_date = None
    /\ date_range \in DateRanges
    /\ pc = "cleaned"
    /\ export_df = <<>>
    /\ source_df = df
    /\ calls = [n \in CallRegisters |-> [pc |-> "start", register_df |-> <<>>]]
    /\ config = <<>>
    /\ exports = <<>>
    /\ register_run = <<>>
    /\ file_path = <<>>
    /\ HelpersIdle

NextCalls == \E n \in CallRegisters : SelectCall(n) \/ ClampCall(n)

SpecCalls == InitCalls /\ [][NextCalls]_vars

\* C13: with one invocation per register over the same table, in any order
\* and interleaved in any way, every invocation reads the table as it was
\* before the first of them (no clamp of another invocation is in it) and
\* returns what it returns when it runs alone on that table.
C13_Independent ==
    /\ df = source_df
    /\ \A n \in CallRegisters :
         /\ calls[n].pc = "selected" =>
              \A k \in 1..Len(calls[n].register_df) :
                calls[n].register_df[k]
                  = RecordOf(source_df, calls[n].register_df[k].key)
         /\ calls[n].pc = "done" =>
              calls[n].register_df
                = filter_nls_date(source_df, RegisterDate(n),
                                  date_range).register_df

\* the invocation for 1678 has clamped a record of min_date 1677 and
\* returned; the invocation for 1677, run after it, returns that record too
C13_Witness ==
    /\ calls["1678"].pc = "done"
    /\ calls["1677"].pc = "done"
    /\ calls["undated"].pc = "selected"
    /\ date_range = 0
    /\ \E k \in 1..Len(calls["1678"].register_df) :
         /\ calls["1678"].register_df[k].min_date = ClampYear
         /\ RecordOf(source_df, calls["1678"].register_df[k].key).min_date
              = ClampYear - 1
         /\ calls["1678"].register_df[k].key
              \in Keys(calls["1677"].register_df)

(***************************************************************************)
(* filter_nls_date called with a target of any kind.                       *)
(***************************************************************************)
\* a target that is not a number, such as a str
Text == -3

\* the targets: those of a register, zero, a negative number, a str
Targets == FilterDates \cup {0, 0 - ClampYear, Text}

\* filter_nls_date has no check of filter_date: a number of any sign goes
\* through the comparisons of lines 186-187 as a year; a str makes the
\* comparison with the float64 column raise TypeError
FilterNlsDateTarget(fd, dr) ==
    /\ pc \in {"cleaned", "filtered"}
    /\ IF fd = Text
       THEN /\ pc' = "raised"
            /\ UNCHANGED <<df, register_df>>
       ELSE /\ pc' = "filtered"
            /\ df' = filter_nls_date(df, fd, dr).df
            /\ register_df' = filter_nls_date(df, fd, dr).register_df
    /\ filter_date' = fd
    /\ date_range' = dr
    /\ UNCHANGED <<dates_df, processed_dates>>
    /\ UNCHANGED otherVars

NextTargets ==
    \E fd \in Targets, dr \in DateRanges : FilterNlsDateTarget(fd, dr)

SpecTargets == InitFilter /\ [][NextTargets]_vars

\* a valid target: a year (a positive integer) or None
ValidTarget(fd) == fd = None \/ fd > 0

\* C14: a call of filter_nls_date whose target is neither a valid year nor
\* the undated sentinel ends with an error; it never returns a result.
C14_InvalidTargetRaises ==
    (pc \in {"filtered", "raised"} /\ ~ValidTarget(filter_date)) =>
      pc = "raised"

(***************************************************************************)
(* clean_nls_dates over tables whose keys are not the row numbers, in the  *)
(* copy of src/src/lib/nls.py (CleanNlsDates) and in the older copy of     *)
(* src/lib/nls.py (CleanNlsDatesRange).                                    *)
(***************************************************************************)
\* the keys of the records: row numbers and a key that is none
KeySet == {0, 1, 5}

\* the tables of n records over the sample texts, under every choice and
\* order of distinct keys
KeyedTablesOf(n) ==
    {[i \in 1..n |-> [key |-> ks[i], date |-> ts[i]]] :
       ks \in {k \in [1..n -> KeySet] :
                 \A i, j \in 1..n : i # j => k[i] # k[j]},
       ts \in [1..n -> SampleTexts]}

KeyedTables == UNION {KeyedTablesOf(n) : n \in 1..MaxRecords}

\* older copy: processed_dates = pd.DataFrame(np.nan, index=range(df_len))
\* and the update() calls: row p holds the dates of the record of key p
ProcessedDatesRange(table, rows) ==
    [p \in 1..Len(table) |-> ProcessedRow(rows, p - 1)]

\* older copy: date_range is indexed by range(df_len) and pd.concat(axis=1)
\* joins it with the columns of df on the union of the two indexes: a
\* record of df finds its dates under its key or has none, and every row
\* number that is no key of df is added as a row without text
WithDateRangeOuter(table, processed) ==
    LET n == Len(table)
        Dated(i) == table[i].key \in 0..(n - 1)
        extra == SelectSeq([p \in 1..n |-> p - 1],
                           LAMBDA k : k \notin Keys(table))
    IN [i \in 1..n |->
          [key |-> table[i].key, date |-> table[i].date,
           min_date |-> IF Dated(i)
                        THEN MinDate(processed[table[i].key + 1]) ELSE NaN,
           max_date |-> IF Dated(i)
                        THEN MaxDate(processed[table[i].key + 1]) ELSE NaN]]
         \o [j \in 1..Len(extra) |->
               [key |-> extra[j], date |-> NaN,
                min_date |-> MinDate(processed[extra[j] + 1]),
                max_date |-> MaxDate(processed[extra[j] + 1])]]

\* clean_nls_dates of src/lib/nls.py
CleanNlsDatesRange ==
    /\ pc = "raw"
    /\ dates_df' = ExtractAll(df)
    /\ processed_dates' = ProcessedDatesRange(df, dates_df')
    /\ df' = WithDateRangeOuter(df, processed_dates')
    /\ pc' = "cleaned"
    /\ UNCHANGED <<register_df, filter_date, date_range>>
    /\ UNCHANGED otherVars

InitKeyed ==
    /\ df \in KeyedTables
    /\ dates_df = <<>>
    /\ processed_dates = <<>>
    /\ register_df = <<>>
    /\ filter_date = None
    /\ date_range = 0
    /\ pc = "raw"
    /\ export_df = <<>>
    /\ source_df = df
    /\ calls = <<>>
    /\ config = <<>>
    /\ exports = <<>>
    /\ register_run = <<>>
    /\ file_path = <<>>
    /\ HelpersIdle

NextKeyed == CleanNlsDates \/ CleanNlsDatesRange

SpecKeyed == InitKeyed /\ [][NextKeyed]_vars

\* the (min_date, max_date) of a date text: what clean_nls_dates gives the
\* record of a table that holds this one record
DateRangeOf(text) ==
    LET t == RawTable(<<text>>)
        r == WithDateRange(t, ProcessedDates(t, ExtractAll(t)))[1]
    IN <<r.min_date, r.max_date>>

\* C15: for a table of arbitrary distinct keys clean_nls_dates returns the
\* records of the table with their keys, in their order, no row added and
\* none dropped, each with the (min_date, max_date) of its own date text.
C15_KeysKept ==
    pc = "cleaned" =>
      /\ Len(df) = Len(source_df)
      /\ \A i \in 1..Len(df) :
           /\ df[i].key = source_df[i].key
           /\ df[i].date = source_df[i].date
           /\ <<df[i].min_date, df[i].max_date>>
                = DateRangeOf(source_df[i].date)

\* the tables a table is compared with: all tables over the sample texts
SampleTables ==
    UNION {{RawTable(ts) : ts \in [1..n -> SampleTexts]} : n \in 1..MaxRecords}

\* what clean_nls_dates returns for a table
CleanedTable(table) ==
    WithDateRange(table, ProcessedDates(table, ExtractAll(table)))

\* C16: the (min_date, max_date) of a record depends on its own date text
\* only: every table that holds a record of the same date text, whatever
\* its other records are, gives that record the same (min_date, max_date).
C16_OwnTextOnly ==
    pc = "cleaned" =>
      \A t \in SampleTables : \A i \in 1..Len(df), j \in 1..Len(t) :
        t[j].date = df[i].date =>
          LET r == CleanedTable(t)[j]
          IN <<df[i].min_date, df[i].max_date>> = <<r.min_date, r.max_date>>

\* a cleaned table of two records of different texts and different dates,
\* the first with a circa and an unqualified date, the second undated
C16_Witness ==
    /\ pc = "cleaned"
    /\ Len(df) = 2
    /\ df[1].date # df[2].date
    /\ df[1].min_date = 1677
    /\ df[1].max_date = 1679
    /\ df[2].min_date = NaN
    /\ df[2].max_date = NaN

(***************************************************************************)
(* main of the NLS cleaning (src/src/cli/clean_nls.py), called by the      *)
(* command line of src/src/main.py with a config file.                     *)
(***************************************************************************)
\* registers = {"1863b": 1863, "undated": None}, in the order of the dict
Registers ==
    << [name |-> "1863b", date |-> 1863], [name |-> "undated", date |-> None] >>

\* date_range = 1., in tenths of a year
MainDateRange == 10

\* the config files a run is given: one that cannot be parsed, and
\* parsable ones with their register mapping; the second holds the
\* registers main has of its own
Configs ==
    { [parses |-> FALSE, registers |-> <<>>],
      [parses |-> TRUE,
       registers |-> << [name |-> "1863b", date |-> 1863],
                        [name |-> "undated", date |-> None] >>],
      [parses |-> TRUE,
       registers |-> << [name |-> "test_register", date |-> 1863] >>],
      [parses |-> TRUE,
       registers |-> << [name |-> "test_register", date |-> 1862],
                        [name |-> "undated", date |-> None] >>] }

\* the date texts of the records of a run
MainTexts ==
    { <<>>,
      <<"1", "8", "6", "3">>,
      <<"c", "1", "8", "6", "1">>,
      <<"1", "6", "7", "7", "?">> }

MainTables ==
    UNION {{RawTable(ts) : ts \in [1..n -> MainTexts]} : n \in 1..MaxRecords}

\* main(input_folder, output_folder, debug, **kwargs): config_file arrives
\* in kwargs and is not read
InitMain ==
    /\ df \in MainTables
    /\ dates_df = <<>>
    /\ processed_dates = <<>>
    /\ register_df = <<>>
    /\ filter_date = None
    /\ date_range = MainDateRange
    /\ pc = "raw"
    /\ export_df = <<>>
    /\ source_df = <<>>
    /\ calls = <<>>
    /\ config \in Configs
    /\ exports = <<>>
    /\ register_run = <<>>
    /\ file_path = <<>>
    /\ HelpersIdle

\* one turn of the loop over registers.items(): the compiled table is
\* filtered for the register, the result is formatted and written to the
\* file labelled register_name + "_export"; after the last register main
\* returns
ExportRegister ==
    /\ pc \in {"cleaned", "filtered"}
    /\ Len(exports) < Len(Registers)
    /\ LET reg == Registers[Len(exports) + 1]
           res == filter_nls_date(df, reg.date, date_range)
       IN /\ df' = res.df
          /\ register_df' = res.register_df
          /\ filter_date' = reg.date
          /\ export_df' = format_library_set(res.register_df, reg.name)
          /\ exports' = Append(exports,
                               [register |-> reg.name,
                                label |-> <<reg.name, "_export">>,
                                table |-> export_df'])
          /\ pc' = IF Len(exports') = Len(Registers)
                   THEN "done" ELSE "filtered"
    /\ UNCHANGED <<dates_df, processed_dates, date_range, source_df, calls,
                   config, register_run, file_path>>
    /\ UNCHANGED helperVars

NextMain == CleanNlsDates \/ ExportRegister

SpecMain == InitMain /\ [][NextMain]_vars

\* the names of the register mapping of a config
ConfigRegisters(c) == {c.registers[i].name : i \in 1..Len(c.registers)}

\* C17: when a run of main has completed, every register named in the
\* register mapping of the config has an export labelled with its name.
C17_ExportPerRegister ==
    pc = "done" =>
      \A name \in ConfigRegisters(config) :
        \E k \in 1..Len(exports) : exports[k].label = <<name, "_export">>

\* C18: with a config file that cannot be parsed main does not run to
\* completion (it raises SyntaxError) and writes no export.
C18_BadConfigRaises ==
    ~config.parses => (pc # "done" /\ exports = <<>>)

(***************************************************************************)
(* main of the register cleaning (src/src/cli/clean_register.py).          *)
(***************************************************************************)
\* list(rename_dict.keys())
ExpectedColumns ==
    {"Register Year", "Register Block", "Page in PDF", "Line number",
     "Book Title", "Publisher"}

\* rename_dict
Rename(name) ==
    CASE name = "Register Year" -> "register"
      [] name = "Register Block" -> "block"
      [] name = "Page in PDF" -> "page"
      [] name = "Line number" -> "line"
      [] name = "Book Title" -> "title"
      [] name = "Publisher" -> "publisher"
      [] OTHER -> name

\* list(rename_dict.values()) + additional_columns
RequiredColumns ==
    {Rename(name) : name \in ExpectedColumns} \cup {"creator", "clean_title"}

\* the columns an input file can have: the expected ones and one more
InputColumns == ExpectedColumns \cup {"Notes"}

\* variant of HasExpectedColumns: one expected column is enough
HasAnyExpectedColumn(columns) == \E name \in ExpectedColumns : name \in columns

\* all(name in df.columns for name in expected_columns)
HasExpectedColumns(columns) == \A name \in ExpectedColumns : name \in columns

\* clean_titles(df, file_path, debug): the column clean_title is added
clean_titles(columns) == columns \cup {"clean_title"}

\* the file has been read: register_run holds the columns of df
InitRegister ==
    /\ df = <<>>
    /\ dates_df = <<>>
    /\ processed_dates = <<>>
    /\ register_df = <<>>
    /\ filter_date = None
    /\ date_range = 0
    /\ pc = "read"
    /\ export_df = <<>>
    /\ source_df = <<>>
    /\ calls = <<>>
    /\ config = <<>>
    /\ exports = <<>>
    /\ register_run \in
         {[columns |-> cols, renamed |-> FALSE, cleaned |-> FALSE,
           written |-> {}, raised |-> "none"] : cols \in SUBSET InputColumns}
    /\ file_path = <<>>
    /\ HelpersIdle

\* main: the check of the expected columns, then rename, clean_titles,
\* reindex on the required columns and to_csv with the index named id
CleanRegister ==
    /\ pc = "read"
    /\ IF ~HasExpectedColumns(register_run.columns)
       THEN /\ register_run' = [register_run EXCEPT !.raised = "KeyError"]
            /\ pc' = "raised"
       ELSE /\ register_run' =
                 [columns |-> RequiredColumns,
                  renamed |-> TRUE,
                  cleaned |->
                    "clean_title" \in
                      clean_titles({Rename(name) :
                                      name \in register_run.columns}),
                  written |-> {"id"} \cup RequiredColumns,
                  raised |-> "none"]
            /\ pc' = "exported"
    /\ UNCHANGED <<df, dates_df, processed_dates, register_df, filter_date,
                   date_range, export_df, source_df, calls, config, exports,
                   file_path>>
    /\ UNCHANGED helperVars

NextRegister == CleanRegister

SpecRegister == InitRegister /\ [][NextRegister]_vars

\* C19: when the input table lacks one of the expected columns, main ends
\* with KeyError and has renamed no column, cleaned no title and written
\* no file: the table is as it was read.
C19_MissingColumnRaises ==
    [][(pc = "read" /\ ExpectedColumns \ register_run.columns # {}) =>
         /\ pc' = "raised"
         /\ register_run' = [register_run EXCEPT !.raised = "KeyError"]
         /\ ~register_run'.renamed
         /\ ~register_run'.cleaned
         /\ register_run'.written = {}]_vars

\* main has raised KeyError for a table that has all expected columns but
\* one, and a column that is not expected
C19_Witness ==
    /\ pc = "raised"
    /\ register_run.raised = "KeyError"
    /\ register_run.columns = InputColumns \ {"Publisher"}
    /\ register_run.written = {}

(***************************************************************************)
(* add_file_data_to_index                                                  *)
(***************************************************************************)
\* re.search(r"(\d{2})\.txt", str(file_path)): two digits and ".txt" at p
TwoDigitsTxtAt(path, p) ==
    /\ p + 5 <= Len(path)
    /\ IsDigit(path[p])
    /\ IsDigit(path[p + 1])
    /\ SubSeq(path, p + 2, p + 5) = <<".", "t", "x", "t">>

\* the last position of a character in a text, 0 when it is not in it
LastIndexOf(text, c) ==
    IF \E i \in 1..Len(text) : text[i] = c
    THEN CHOOSE i \in 1..Len(text) :
           /\ text[i] = c
           /\ \A j \in (i + 1)..Len(text) : text[j] # c
    ELSE 0

\* file_path.name: what follows the last "/"
PathName(path) == SubSeq(path, LastIndexOf(path, "/") + 1, Len(path))

\* file_path.stem: the name without its last suffix
PathStem(path) ==
    LET name == PathName(path)
        i == LastIndexOf(name, ".")
    IN IF 1 < i /\ i < Len(name) THEN SubSeq(name, 1, i - 1) ELSE name

\* the prefix: group 1 of the first match of the search; without a match
\* (AttributeError on None) the stem of the path
Prefix(path) ==
    IF \E p \in 1..Len(path) : TwoDigitsTxtAt(path, p)
    THEN LET p == CHOOSE q \in 1..Len(path) :
                    /\ TwoDigitsTxtAt(path, q)
                    /\ \A r \in 1..(q - 1) : ~TwoDigitsTxtAt(path, r)
         IN SubSeq(path, p, p + 1)
    ELSE PathStem(path)

\* df.index = df.index.map(lambda x: f'{prefix}:{x}')
add_file_data_to_index(table, path) ==
    [i \in 1..Len(table) |->
       [table[i] EXCEPT !.key = <<Prefix(path), ":", table[i].key>>]]

\* the paths of the input files: a folder, a name, an underscore or none,
\* a file number or none, and a suffix or none
FileNumbers ==
    { <<>>, <<"5">>, <<"0", "7">>, <<"3", "4">>, <<"1", "3", "4">> }

FilePaths ==
    {dir \o base \o sep \o num \o ext :
       dir \in {<<>>, <<"d", "/">>, <<"1", "2", ".", "t", "x", "t", "/">>},
       base \in {<<"a">>, <<"a", ".", "b">>},
       sep \in {<<>>, <<"_">>},
       num \in FileNumbers,
       ext \in {<<>>, <<".", "t", "x", "t">>, <<".", "t", "s", "v">>}}

\* the tables of a file, in columns, with the row numbers as keys
FileTables ==
    {RawTable(ts) : ts \in {<<>>, << <<"1", "6", "7", "7">> >>,
                            << <<>>, <<"c", "1", "6", "7", "9">> >>}}

InitIndex ==
    /\ df \in FileTables
    /\ dates_df = <<>>
    /\ processed_dates = <<>>
    /\ register_df = <<>>
    /\ filter_date = None
    /\ date_range = 0
    /\ pc = "columnar"
    /\ export_df = <<>>
    /\ source_df = df
    /\ calls = <<>>
    /\ config = <<>>
    /\ exports = <<>>
    /\ register_run = <<>>
    /\ file_path \in FilePaths
    /\ HelpersIdle

AddFileDataToIndex ==
    /\ pc = "columnar"
    /\ df' = add_file_data_to_index(df, file_path)
    /\ pc' = "indexed"
    /\ UNCHANGED <<dates_df, processed_dates, register_df, filter_date,
                   date_range, export_df, source_df, calls, config, exports,
                   register_run, file_path>>
    /\ UNCHANGED helperVars

NextIndex == AddFileDataToIndex

SpecIndex == InitIndex /\ [][NextIndex]_vars

\* the end of the longest run of digits that ends just before ".txt" at
\* the end of a file name: the file number of the name
FileNumberOf(name) ==
    LET e == Len(name) - 4
        b == CHOOSE i \in 1..(e + 1) :
               /\ \A j \in i..e : IsDigit(name[j])
               /\ \A k \in 1..(i - 1) :
                    \E j \in k..e : ~IsDigit(name[j])
    IN SubSeq(name, b, e)

\* a name of the form ..._<filenumber>.txt
IsNumbered(name) ==
    /\ Len(name) >= 6
    /\ SubSeq(name, Len(name) - 3, Len(name)) = <<".", "t", "x", "t">>
    /\ FileNumberOf(name) # <<>>
    /\ name[Len(name) - 4 - Len(FileNumberOf(name))] = "_"

\* C20: add_file_data_to_index relabels the key k of every record to
\* <prefix>:<k>, in the same order and number, the rest of the record as it
\* was; the prefix is the file number of a path ..._<filenumber>.txt and
\* the file name without its extension for every other path.
C20_FileNumberPrefix ==
    pc = "indexed" =>
      LET name == PathName(file_path)
          prefix == IF IsNumbered(name) THEN FileNumberOf(name)
                    ELSE PathStem(file_path)
      IN /\ Len(df) = Len(source_df)
         /\ \A i \in 1..Len(df) :
              /\ df[i].key = <<prefix, ":", source_df[i].key>>
              /\ df[i].date = source_df[i].date

(***************************************************************************)
(* Further properties of filter_nls_date and clean_nls_dates.              *)
(***************************************************************************)
\* C24: in the result of a filter for a target year every record has
\* min_date <= max_date, also after the clamp of min_date to 1678, for
\* every target year and every tolerance.
C24_ClampKeepsOrder ==
    (pc = "filtered" /\ filter_date # None) =>
      \A k \in 1..Len(register_df) :
        register_df[k].min_date <= register_df[k].max_date

\* C25: filter_nls_date applied to its own result with the same target and
\* tolerance returns that result: the same records with the same fields.
C25_Idempotent ==
    pc = "filtered" =>
      filter_nls_date(register_df, filter_date, date_range).register_df
        = register_df

\* C26: after clean_nls_dates min_date is missing exactly when max_date is
\* missing, so a record that is not fully dated is in the result of the
\* undated filter over the cleaned table.
C26_BothOrNeither ==
    pc = "cleaned" =>
      \A i \in 1..Len(df) :
        /\ df[i].min_date = NaN <=> df[i].max_date = NaN
        /\ (df[i].min_date = NaN \/ df[i].max_date = NaN) =>
             df[i].key
               \in Keys(filter_nls_date(df, None, date_range).register_df)

\* a cleaned table with a record without dates and a record whose dates
\* come from a single question date
C26_Witness ==
    /\ pc = "cleaned"
    /\ Len(df) = 2
    /\ df[1].min_date = NaN
    /\ df[1].max_date = NaN
    /\ df[2].min_date = df[2].max_date
    /\ df[2].min_date # NaN
    /\ processed_dates[2].question_date # NaN
    /\ processed_dates[2].max_uq_date = NaN

(***************************************************************************)
(* labelled_file                                                           *)
(***************************************************************************)
\* out_dir / new_name
JoinPath(dir, name) == IF dir = <<".">> THEN name ELSE dir \o <<"/">> \o name

\* new_name = file_path.stem + '_' + label + '.tsv'; return out_dir / new_name
labelled_file(dir, path, lab) ==
    JoinPath(dir, PathStem(path) \o <<"_">> \o lab \o <<".", "t", "s", "v">>)

\* the input files of a call, the output folders, the labels and the
\* suffixes; the suffix <<>> stands for a call without a suffix
InputFiles ==
    {dir \o base \o ext :
       dir \in {<<>>, <<"d", "/">>},
       base \in {<<"a">>, <<"a", ".", "b">>, <<"a", "_", "0", "7">>},
       ext \in {<<>>, <<".", "c", "s", "v">>, <<".", "t", "s", "v">>}}

OutDirs == {<<".">>, <<"o">>, <<"t", "/", "r">>}

Labels == {<<"l">>, <<"1", "8", "6", "3", "b", "_", "e">>}

Suffixes == {<<>>, <<".", "t", "s", "v">>, <<".", "c", "s", "v">>}

InitLabelled ==
    /\ df = <<>>
    /\ dates_df = <<>>
    /\ processed_dates = <<>>
    /\ register_df = <<>>
    /\ filter_date = None
    /\ date_range = 0
    /\ pc = "call"
    /\ export_df = <<>>
    /\ source_df = <<>>
    /\ calls = <<>>
    /\ config = <<>>
    /\ exports = <<>>
    /\ register_run = <<>>
    /\ file_path \in InputFiles
    /\ file_paths = <<>>
    /\ compiled_df = <<>>
    /\ out_dir \in OutDirs
    /\ label \in Labels
    /\ suffix \in Suffixes
    /\ new_path = <<>>
    /\ title_string = <<>>
    /\ clean_title = <<>>

\* a call of labelled_file(out_dir, file_path, label), with a suffix as a
\* fourth argument or without: the function has three parameters, a fourth
\* argument raises TypeError
LabelledFile ==
    /\ pc = "call"
    /\ IF suffix # <<>>
       THEN /\ pc' = "raised"
            /\ new_path' = new_path
       ELSE /\ pc' = "labelled"
            /\ new_path' = labelled_file(out_dir, file_path, label)
    /\ UNCHANGED <<df, dates_df, processed_dates, register_df, filter_date,
                   date_range, export_df, source_df, calls, config, exports,
                   register_run, file_path, file_paths, compiled_df, out_dir,
                   label, suffix, title_string, clean_title>>

NextLabelled == LabelledFile

SpecLabelled == InitLabelled /\ [][NextLabelled]_vars

\* file_path.suffix: the last suffix of the name, none for a name without
PathSuffix(path) ==
    LET name == PathName(path)
        i == LastIndexOf(name, ".")
    IN IF 1 < i /\ i < Len(name) THEN SubSeq(name, i, Len(name)) ELSE <<>>

\* C21: labelled_file returns out_dir joined with <stem>_<label><ext>; ext
\* is the suffix of the call when one is passed and the extension of the
\* input file when none is passed.
C21_LabelledFile ==
    pc # "call" =>
      /\ pc = "labelled"
      /\ new_path =
           JoinPath(out_dir,
                    PathStem(file_path) \o <<"_">> \o label
                      \o (IF suffix # <<>> THEN suffix
                          ELSE PathSuffix(file_path)))

(***************************************************************************)
(* remove_metadata and clean_title_string                                  *)
(***************************************************************************)
UpperCaseLetters ==
    << "A", "B", "C", "D", "E", "F", "G", "H", "I", "J", "K", "L", "M",
       "N", "O", "P", "Q", "R", "S", "T", "U", "V", "W", "X", "Y", "Z" >>

LowerCaseLetters ==
    << "a", "b", "c", "d", "e", "f", "g", "h", "i", "j", "k", "l", "m",
       "n", "o", "p", "q", "r", "s", "t", "u", "v", "w", "x", "y", "z" >>

\* str.lower() of one character
ToLower(c) ==
    IF \E i \in 1..Len(UpperCaseLetters) : UpperCaseLetters[i] = c
    THEN LowerCaseLetters[CHOOSE i \in 1..Len(UpperCaseLetters) :
                            UpperCaseLetters[i] = c]
    ELSE c

LowerCase(text) == [i \in 1..Len(text) |-> ToLower(text[i])]

\* [a-zA-Z0-9]
IsAlnum(c) ==
    \/ IsDigit(c)
    \/ \E i \in 1..Len(LowerCaseLetters) :
         c = LowerCaseLetters[i] \/ c = UpperCaseLetters[i]

\* a character of a word, for \b
IsWordChar(c) == IsAlnum(c) \/ c = "_"

\* \s
IsSpace(c) == c \in {" ", "\t", "\n", "\r"}

\* re.sub of an alternation of literal words: at each position the first
\* word of the alternation found there is replaced and the scan goes on
\* behind it
RECURSIVE SubLiterals(_, _, _, _)
SubLiterals(text, p, words, by) ==
    IF p > Len(text) THEN <<>>
    ELSE IF \E i \in 1..Len(words) : StartsWith(text, p, words[i])
         THEN LET i == CHOOSE j \in 1..Len(words) :
                         /\ StartsWith(text, p, words[j])
                         /\ \A k \in 1..(j - 1) :
                              ~StartsWith(text, p, words[k])
              IN by \o SubLiterals(text, p + Len(words[i]), words, by)
         ELSE <<text[p]>> \o SubLiterals(text, p + 1, words, by)

\* \[(?:microform|illustrated|a novel|plates)\]
BracketTags ==
    << <<"[", "m", "i", "c", "r", "o", "f", "o", "r", "m", "]">>,
       <<"[", "i", "l", "l", "u", "s", "t", "r", "a", "t", "e", "d", "]">>,
       <<"[", "a", " ", "n", "o", "v", "e", "l", "]">>,
       <<"[", "p", "l", "a", "t", "e", "s", "]">> >>

\* n|ed|vol(?:s|ume|umes|)
EditionWords ==
    { <<"n">>, <<"e", "d">>, <<"v", "o", "l">>, <<"v", "o", "l", "s">>,
      <<"v", "o", "l", "u", "m", "e">>, <<"v", "o", "l", "u", "m", "e", "s">> }

\* \b(?:n|ed|vol(?:s|ume|umes|))\b at p: one of the words, with no
\* character of a word before it and none behind it
EditionWordAt(text, p, w) ==
    /\ StartsWith(text, p, w)
    /\ p = 1 \/ ~IsWordChar(text[p - 1])
    /\ p + Len(w) > Len(text) \/ ~IsWordChar(text[p + Len(w)])

RECURSIVE EditionsClean(_, _)
EditionsClean(text, p) ==
    IF p > Len(text) THEN <<>>
    ELSE IF \E w \in EditionWords : EditionWordAt(text, p, w)
         THEN LET w == CHOOSE v \in EditionWords : EditionWordAt(text, p, v)
              IN EditionsClean(text, p + Len(w))
         ELSE <<text[p]>> \o EditionsClean(text, p + 1)

\* re.sub(r'\d{1,4}', '', text): every digit is in a match and removed
DigitsClean(text) == SelectSeq(text, LAMBDA c : ~IsDigit(c))

\* re.sub(r'\s{2,}', ' ', text): a run of two or more is one space
RECURSIVE SingleSpaced(_, _)
SingleSpaced(text, p) ==
    IF p > Len(text) THEN <<>>
    ELSE IF IsSpace(text[p]) /\ p < Len(text) /\ IsSpace(text[p + 1])
         THEN LET e == CHOOSE q \in (p + 1)..Len(text) :
                         /\ \A r \in p..q : IsSpace(text[r])
                         /\ q = Len(text) \/ ~IsSpace(text[q + 1])
              IN <<" ">> \o SingleSpaced(text, e + 1)
         ELSE <<text[p]>> \o SingleSpaced(text, p + 1)

\* str.strip()
Strip(text) ==
    IF \A i \in 1..Len(text) : IsSpace(text[i]) THEN <<>>
    ELSE LET b == CHOOSE i \in 1..Len(text) :
                    /\ ~IsSpace(text[i])
                    /\ \A j \in 1..(i - 1) : IsSpace(text[j])
             e == CHOOSE i \in 1..Len(text) :
                    /\ ~IsSpace(text[i])
                    /\ \A j \in (i + 1)..Len(text) : IsSpace(text[j])
         IN SubSeq(text, b, e)

\* remove_metadata(title_string)
remove_metadata(text) ==
    DigitsClean(
      EditionsClean(SubLiterals(LowerCase(text), 1, BracketTags, <<>>), 1))

\* re.sub(r'(&amp;|&)', 'and', title_string)
NoAmpersand(text) ==
    SubLiterals(text, 1, << <<"&", "a", "m", "p", ";">>, <<"&">> >>,
                <<"a", "n", "d">>)

\* the character U+0060, the backtick
Backtick == "U+0060"

\* variant of NoApostrophe: a space is put where the character was
NoApostropheSpaced(text) ==
    [i \in 1..Len(text) |-> IF text[i] \in {"'", Backtick} THEN " " ELSE text[i]]

\* re.sub of an apostrophe or a backtick by '' in no_ampersand
NoApostrophe(text) == SelectSeq(text, LAMBDA c : c \notin {"'", Backtick})

\* re.sub(r'[^a-zA-Z0-9]', ' ', no_apostrophe)
Alphanum(text) ==
    [i \in 1..Len(text) |-> IF IsAlnum(text[i]) THEN text[i] ELSE " "]

\* clean_title_string(title_string)
clean_title_string(text) ==
    LowerCase(Strip(SingleSpaced(Alphanum(NoApostrophe(NoAmpersand(text))), 1)))

\* the pieces titles are put together from
MetadataChunks ==
    { <<"N">>, <<"e", "d">>, <<"v", "o", "l">>, <<"s">>, <<"u", "m", "e">>,
      <<" ">>, <<"[", "p", "l", "a", "t", "e", "s", "]">>, <<"2">>, <<"-">> }

TitleChunks ==
    { <<"a">>, <<"B">>, <<"&">>, <<"&", "a", "m", "p", ";">>, <<"'">>,
      <<Backtick>>, <<" ">>, <<"\t">>, <<"7">> }

RECURSIVE TextsOver(_, _)
TextsOver(chunks, n) ==
    IF n = 0 THEN {<<>>}
    ELSE LET T == TextsOver(chunks, n - 1)
         IN T \cup {t \o c : t \in T, c \in chunks}

TitleStrings ==
    TextsOver(MetadataChunks, MaxParts) \cup TextsOver(TitleChunks, MaxParts)

InitTitles ==
    /\ df = <<>>
    /\ dates_df = <<>>
    /\ processed_dates = <<>>
    /\ register_df = <<>>
    /\ filter_date = None
    /\ date_range = 0
    /\ pc = "title"
    /\ export_df = <<>>
    /\ source_df = <<>>
    /\ calls = <<>>
    /\ config = <<>>
    /\ exports = <<>>
    /\ register_run = <<>>
    /\ file_path = <<>>
    /\ file_paths = <<>>
    /\ compiled_df = <<>>
    /\ out_dir = <<>>
    /\ label = <<>>
    /\ suffix = <<>>
    /\ new_path = <<>>
    /\ title_string \in TitleStrings
    /\ clean_title = <<>>

RemoveMetadata ==
    /\ pc = "title"
    /\ clean_title' = remove_metadata(title_string)
    /\ pc' = "no_metadata"
    /\ UNCHANGED <<df, dates_df, processed_dates, register_df, filter_date,
                   date_range, export_df, source_df, calls, config, exports,
                   register_run, file_path, file_paths, compiled_df, out_dir,
                   label, suffix, new_path, title_string>>

CleanTitleString ==
    /\ pc = "title"
    /\ clean_title' = clean_title_string(title_string)
    /\ pc' = "clean_title"
    /\ UNCHANGED <<df, dates_df, processed_dates, register_df, filter_date,
                   date_range, export_df, source_df, calls, config, exports,
                   register_run, file_path, file_paths, compiled_df, out_dir,
                   label, suffix, new_path, title_string>>

NextTitles == RemoveMetadata \/ CleanTitleString

SpecTitles == InitTitles /\ [][NextTitles]_vars

\* a text without a space at either end and without two spaces in a row
Trimmed(text) ==
    /\ text = <<>> \/ (~IsSpace(text[1]) /\ ~IsSpace(text[Len(text)]))
    /\ \A i \in 1..(Len(text) - 1) : ~(IsSpace(text[i]) /\ IsSpace(text[i + 1]))

\* C22: remove_metadata returns the title in lower case, without bracketed
\* tag, without edition or volume marker and number, with no whitespace at
\* either end and no run of spaces.
C22_RemoveMetadata ==
    pc = "no_metadata" =>
      /\ clean_title = LowerCase(clean_title)
      /\ \A i \in 1..Len(clean_title) : ~IsDigit(clean_title[i])
      /\ \A i \in 1..Len(clean_title) :
           /\ \A t \in 1..Len(BracketTags) :
                ~StartsWith(clean_title, i, BracketTags[t])
           /\ \A w \in EditionWords : ~EditionWordAt(clean_title, i, w)
      /\ Trimmed(clean_title)

\* C23: the result of clean_title_string holds lower-case letters, digits
\* and single spaces only, with no space at either end; it is the result
\* for the title with the word and in place of each &amp; and &, and the
\* result for the title with its apostrophes and backticks taken out; and
\* clean_title_string returns its own result unchanged.
C23_CleanTitle ==
    pc = "clean_title" =>
      /\ \A i \in 1..Len(clean_title) :
           \/ clean_title[i] = " "
           \/ IsDigit(clean_title[i])
           \/ \E k \in 1..Len(LowerCaseLetters) :
                clean_title[i] = LowerCaseLetters[k]
      /\ Trimmed(clean_title)
      /\ clean_title = clean_title_string(NoAmpersand(title_string))
      /\ clean_title
           = clean_title_string(
               SelectSeq(title_string, LAMBDA c : c \notin {"'", Backtick}))
      /\ clean_title_string(clean_title) = clean_title

\* the title B'&amp; has been cleaned to band
C23_Witness ==
    /\ pc = "clean_title"
    /\ title_string = <<"B", "'", "&", "a", "m", "p", ";">>
    /\ clean_title = <<"b", "a", "n", "d">>

(***************************************************************************)
(* The tables of several files, each relabelled by add_file_data_to_index  *)
(* and concatenated into the compiled table.                               *)
(***************************************************************************)
\* the files of an input folder
CompilePaths ==
    { <<"a", "_", "0", "7", ".", "t", "x", "t">>,
      <<"b", "_", "0", "7", ".", "t", "x", "t">>,
      <<"a", "_", "3", "4", ".", "t", "x", "t">>,
      <<"a", "_", "1", "3", "4", ".", "t", "x", "t">>,
      <<"d", "/", "a", "_", "5", ".", "t", "x", "t">>,
      <<"a", ".", "t", "s", "v">> }

\* one file, or two files of different file names
FileLists ==
    {<<f>> : f \in CompilePaths}
      \cup {fs \in [1..2 -> CompilePaths] : PathName(fs[1]) # PathName(fs[2])}

InitCompile ==
    /\ df = <<>>
    /\ dates_df = <<>>
    /\ processed_dates = <<>>
    /\ register_df = <<>>
    /\ filter_date = None
    /\ date_range = 0
    /\ pc = "compiling"
    /\ export_df = <<>>
    /\ source_df = <<>>
    /\ calls = <<>>
    /\ config = <<>>
    /\ exports = <<>>
    /\ register_run = <<>>
    /\ file_path = <<>>
    /\ file_paths \in FileLists
    /\ compiled_df = <<>>
    /\ out_dir = <<>>
    /\ label = <<>>
    /\ suffix = <<>>
    /\ new_path = <<>>
    /\ title_string = <<>>
    /\ clean_title = <<>>

\* one turn of the loop over file_paths: the table of the file is read,
\* relabelled and appended, compiled_df = pd.concat([compiled_df, df])
CompileFile(table) ==
    /\ pc = "compiling"
    /\ file_paths # <<>>
    /\ file_path' = Head(file_paths)
    /\ source_df' = table
    /\ df' = add_file_data_to_index(table, Head(file_paths))
    /\ compiled_df' = compiled_df \o df'
    /\ file_paths' = Tail(file_paths)
    /\ pc' = IF Tail(file_paths) = <<>> THEN "compiled" ELSE "compiling"
    /\ UNCHANGED <<dates_df, processed_dates, register_df, filter_date,
                   date_range, export_df, calls, config, exports,
                   register_run, out_dir, label, suffix, new_path,
                   title_string, clean_title>>

NextCompile == \E table \in FileTables : CompileFile(table)

SpecCompile == InitCompile /\ [][NextCompile]_vars

\* C27: in the compiled table of files of different names, each relabelled
\* by add_file_data_to_index, no two records have the same key.
C27_DistinctKeys ==
    \A i, j \in 1..Len(compiled_df) :
      i # j => compiled_df[i].key # compiled_df[j].key

====
